---- MODULE Spec2Model ----
(***************************************************************************)
(* OLOPA backend: the escrow transaction orchestrator.                     *)
(*                                                                         *)
(* The repository holds two implementations of the same seven operations:  *)
(*   impl = "server"  : server.js, the self-contained application whose    *)
(*                      route handlers talk to the ledger themselves;      *)
(*   impl = "service" : the router (routes), the validation middleware,    *)
(*                      the Joi validators, EscrowService and the          *)
(*                      xrpl.config connection factory.                    *)
(* A process runs one of them; impl is fixed by Init.                      *)
(*                                                                         *)
(* The ledger (xrpl.Client) is an external collaborator: every call to it  *)
(* (connect, request, autofill, submit) is started by one step of a        *)
(* handler and completed by a later step whose result the environment      *)
(* chooses.  JavaScript objects are records whose absent properties are    *)
(* absent fields.                                                          *)
(***************************************************************************)
EXTENDS Integers, Sequences, FiniteSets, TLC

VARIABLES
    impl,        \* which application the process runs
    now,         \* the wall clock, in unix seconds
    schemaMin,   \* Math.floor(Date.now() / 1000) as evaluated when the schema was built
    xrplClient,  \* server.js: the module-level handle (0 is null)
    svcClient,   \* EscrowService: this.client (0 is null)
    clients,     \* every xrpl.Client object ever constructed -> its connection state
    reqs,        \* the requests in flight, by slot
    codec        \* the value a codec is being applied to, when one is exercised alone

vars == <<impl, now, schemaMin, xrplClient, svcClient, clients, reqs, codec>>

(***************************************************************************)
(* Bounds of the model.                                                    *)
(***************************************************************************)
MaxTick == 2      \* the clock advances at most this far past process start
MaxClients == 2   \* xrpl.Client objects constructed in one run
MaxSigs == 2      \* signature packets in one submit-multisig body
MaxReqs == 2      \* request slots (requests concurrently in flight)
MaxStr == 2       \* code points in a string given to the Memo Codec
MaxOffset == 3    \* how far around each notable instant the Time Codec's inputs go

RippleEpoch == 946684800

StartTime == RippleEpoch + 1000

Slots == 1..MaxReqs
ClientIds == 1..MaxClients
Times == (StartTime - 1)..(StartTime + MaxTick)

(***************************************************************************)
(* JavaScript objects.                                                     *)
(***************************************************************************)
Empty == [k \in {} |-> 0]

Has(obj, key) == key \in DOMAIN obj

\* the objects { } and { key: v } for v in S: an optional property
Opt(key, S) == {Empty} \cup {(key :> v) : v \in S}

(***************************************************************************)
(* Account identifiers.  Three classes of string matter to the code: one   *)
(* the schema's pattern rejects, one the pattern accepts although its      *)
(* base58 checksum is wrong, and well-formed addresses.                    *)
(***************************************************************************)
WellFormedAddrs == {"rAliceAddressWithGoodChecksum", "rBobAddressWithGoodChecksum"}
BadChecksumAddrs == {"rPatternOkButChecksumIsWrong"}
PatternRejectedAddrs == {"not-an-address"}

Addrs == WellFormedAddrs \cup BadChecksumAddrs \cup PatternRejectedAddrs

\* Joi.string().pattern(/^r[1-9A-HJ-NP-Za-km-z]{25,34}$/).required()
xrplAddress(obj, key) == Has(obj, key) /\ obj[key] \in WellFormedAddrs \cup BadChecksumAddrs

\* xrpl.isValidAddress: the base58check decoding succeeds
isValidAddress(a) == a \in WellFormedAddrs

(***************************************************************************)
(* Time Codec and Memo Codec.  A string is the sequence of its code        *)
(* points; toHex gives the uppercase hexadecimal text of its UTF-8 bytes.  *)
(***************************************************************************)
\* toRippleTime that takes its argument for milliseconds
toRippleTimeFromMillis(unixTimestamp) == (unixTimestamp \div 1000) - RippleEpoch

toRippleTime(unixTimestamp) == unixTimestamp - RippleEpoch

fromRippleTime(rippleTime) == rippleTime + RippleEpoch

\* a code unit that is half of a surrogate pair, met alone
IsLoneSurrogate(cp) == cp >= 55296 /\ cp <= 57343

\* Buffer.from(str, 'utf8'): the UTF-8 bytes of one code point; a lone
\* surrogate is written as U+FFFD
Utf8(cp) ==
    IF cp < 128 THEN <<cp>>
    ELSE IF cp < 2048 THEN <<192 + (cp \div 64), 128 + (cp % 64)>>
    ELSE IF IsLoneSurrogate(cp) THEN <<239, 191, 189>>
    ELSE IF cp < 65536
         THEN <<224 + (cp \div 4096), 128 + ((cp \div 64) % 64), 128 + (cp % 64)>>
         ELSE <<240 + (cp \div 262144), 128 + ((cp \div 4096) % 64),
                128 + ((cp \div 64) % 64), 128 + (cp % 64)>>

RECURSIVE Utf8Bytes(_)
Utf8Bytes(str) ==
    IF str = <<>> THEN <<>> ELSE Utf8(Head(str)) \o Utf8Bytes(Tail(str))

\* the characters 0-9 and A-F
HexDigits == <<48, 49, 50, 51, 52, 53, 54, 55, 56, 57, 65, 66, 67, 68, 69, 70>>

\* HexByte that does not pad a byte below 16 to two digits
HexByteUnpadded(b) ==
    IF b < 16 THEN <<HexDigits[b + 1]>>
    ELSE <<HexDigits[(b \div 16) + 1], HexDigits[(b % 16) + 1]>>

\* .toString('hex').toUpperCase() of one byte
HexByte(b) == <<HexDigits[(b \div 16) + 1], HexDigits[(b % 16) + 1]>>

RECURSIVE HexOfBytes(_)
HexOfBytes(bytes) ==
    IF bytes = <<>> THEN <<>> ELSE HexByte(Head(bytes)) \o HexOfBytes(Tail(bytes))

toHex(str) == HexOfBytes(Utf8Bytes(str))

\* the string 'escrow'
EscrowLiteral == <<101, 115, 99, 114, 111, 119>>

(***************************************************************************)
(* The standard decoders the Memo Codec's output is meant for: hexadecimal *)
(* text to bytes (either case of a letter), and UTF-8 bytes to code points.*)
(***************************************************************************)
\* the value of a hexadecimal digit, -1 for any other character
HexValue(ch) ==
    IF ch >= 48 /\ ch <= 57 THEN ch - 48
    ELSE IF ch >= 65 /\ ch <= 70 THEN ch - 55
    ELSE IF ch >= 97 /\ ch <= 102 THEN ch - 87
    ELSE -1

Malformed == <<-1>>

RECURSIVE HexDecode(_)
HexDecode(text) ==
    IF text = <<>> THEN <<>>
    ELSE IF Len(text) = 1 \/ HexValue(text[1]) < 0 \/ HexValue(text[2]) < 0 THEN Malformed
    ELSE LET rest == HexDecode(SubSeq(text, 3, Len(text)))
         IN  IF rest = Malformed THEN Malformed
             ELSE <<16 * HexValue(text[1]) + HexValue(text[2])>> \o rest

\* the number of bytes of the character that starts with byte b, 0 if none does
Utf8Length(b) ==
    IF b < 128 THEN 1
    ELSE IF b >= 192 /\ b < 224 THEN 2
    ELSE IF b >= 224 /\ b < 240 THEN 3
    ELSE IF b >= 240 /\ b < 248 THEN 4
    ELSE 0

\* the code point of one character's bytes
Utf8CodePoint(bytes) ==
    CASE Len(bytes) = 1 -> bytes[1]
      [] Len(bytes) = 2 -> (bytes[1] - 192) * 64 + (bytes[2] - 128)
      [] Len(bytes) = 3 -> (bytes[1] - 224) * 4096 + (bytes[2] - 128) * 64 + (bytes[3] - 128)
      [] OTHER -> (bytes[1] - 240) * 262144 + (bytes[2] - 128) * 4096
                  + (bytes[3] - 128) * 64 + (bytes[4] - 128)

RECURSIVE Utf8Decode(_)
Utf8Decode(bytes) ==
    IF bytes = <<>> THEN <<>>
    ELSE LET n == Utf8Length(bytes[1])
         IN  IF n = 0 \/ n > Len(bytes) \/ bytes = Malformed THEN Malformed
             ELSE LET rest == Utf8Decode(SubSeq(bytes, n + 1, Len(bytes)))
                  IN  IF rest = Malformed THEN Malformed
                      ELSE <<Utf8CodePoint(SubSeq(bytes, 1, n))>> \o rest

(***************************************************************************)
(* Request bodies.                                                         *)
(***************************************************************************)
Alice == "rAliceAddressWithGoodChecksum"
Bob == "rBobAddressWithGoodChecksum"
BadChecksum == "rPatternOkButChecksumIsWrong"
NotAnAddress == "not-an-address"

\* (acting account, other account) of a create, finish or cancel body
AddrPairs == {<<Alice, Bob>>, <<BadChecksum, Bob>>, <<Alice, BadChecksum>>,
              <<NotAnAddress, Bob>>, <<Alice, NotAnAddress>>}

\* {}, { data: 'h\u00e9' } and { type: 'n', data: 'h\u00e9' }
MemoObjs == {Empty, [data |-> <<104, 233>>], [type |-> <<110>>, data |-> <<104, 233>>]}

\* { type: '' }, which the schema refuses
EmptyTypeMemo == [type |-> <<>>]

\* amounts in drops
Amounts == {"1000000", "25"}

\* create bodies that differ in their addresses and their two instants
TimedCreateBodies ==
    { [sourceAddress |-> p[1], destinationAddress |-> p[2], amount |-> "1000000"]
        @@ fa @@ ca :
        p \in AddrPairs, fa \in Opt("finishAfter", Times), ca \in Opt("cancelAfter", Times) }

\* create bodies that differ in their amount and their optional properties
OptionCreateBodies ==
    { [sourceAddress |-> Alice, destinationAddress |-> Bob, amount |-> am,
       finishAfter |-> StartTime + MaxTick]
        @@ ca @@ co @@ me :
        am \in Amounts, ca \in Opt("cancelAfter", {StartTime + MaxTick}),
        co \in Opt("condition", {"A0258020E3B0C442"}), me \in Opt("memo", MemoObjs) }

\* create bodies with an empty string where the schema wants a string
EmptyStringCreateBodies ==
    { [sourceAddress |-> Alice, destinationAddress |-> Bob, amount |-> "1000000",
       finishAfter |-> StartTime + MaxTick] @@ x :
        x \in {[condition |-> ""], [memo |-> EmptyTypeMemo]} }

CreateBodies == TimedCreateBodies \cup OptionCreateBodies \cup EmptyStringCreateBodies

FinishBodies ==
    { [finisherAddress |-> p[1], ownerAddress |-> p[2], offerSequence |-> 7] @@ fu :
        p \in AddrPairs, fu \in Opt("fulfillment", {"A0228020", ""}) }

CancelBodies ==
    { [cancellerAddress |-> p[1], ownerAddress |-> p[2], offerSequence |-> 7] :
        p \in AddrPairs }

SubmitBodies == {[signedTxBlob |-> "1200022280000000"], [signedTxBlob |-> "not hex"], Empty}

SignaturePackets ==
    { [signer |-> Alice, signature |-> "3045AA", publicKey |-> "02AAAA"],
      [signer |-> Bob, signature |-> "3045BB"],
      [signer |-> NotAnAddress, signature |-> "3045CC"] }

RECURSIVE SeqsUpTo(_, _)
SeqsUpTo(S, n) ==
    IF n = 0 THEN {<<>>}
    ELSE LET shorter == SeqsUpTo(S, n - 1)
         IN  shorter \cup {Append(q, x) : q \in shorter, x \in S}

PreparedFinish ==
    [TransactionType |-> "EscrowFinish", Account |-> Alice, Owner |-> Bob,
     OfferSequence |-> 7, Fee |-> "12", Sequence |-> 5, LastLedgerSequence |-> 100]

\* a prepared transaction as autofill returned it, one that was signed by a
\* single key since, and one that carries a signer list already
TransactionObjs ==
    {PreparedFinish,
     PreparedFinish @@ [SigningPubKey |-> "02FFFF", TxnSignature |-> "3045FF"],
     PreparedFinish @@ [Signers |-> << [Signer |-> [Account |-> Bob, TxnSignature |-> "3045DD",
                                                   SigningPubKey |-> "02DDDD"]] >>]}

MultisigBodies ==
    { [transaction |-> t, signatures |-> sigs] :
        t \in TransactionObjs, sigs \in SeqsUpTo(SignaturePackets, MaxSigs) }

StatusParams == { [ownerAddress |-> a, offerSequence |-> 7] : a \in {Alice, NotAnAddress} }

TxParams == {[txHash |-> "E3FE6EA3D48F0C2B"]}

Kinds == {"create", "finish", "cancel", "submit", "multisig", "status", "tx"}

BodiesOf(kind) ==
    CASE kind = "create" -> CreateBodies
      [] kind = "finish" -> FinishBodies
      [] kind = "cancel" -> CancelBodies
      [] kind = "submit" -> SubmitBodies
      [] kind = "multisig" -> MultisigBodies
      [] kind = "status" -> StatusParams
      [] kind = "tx" -> TxParams

(***************************************************************************)
(* The Joi schemas: each gives the fields of the body it refuses, one for   *)
(* each entry of error.details (abortEarly is false); the message of an    *)
(* entry is the library's text and is left out.                            *)
(***************************************************************************)
\* detail.path.join('.')
RECURSIVE Join(_)
Join(path) == IF Len(path) = 1 THEN path[1] ELSE path[1] \o "." \o Join(Tail(path))

Refused(path, bad) == IF bad THEN {Join(path)} ELSE {}

\* Joi.string().optional(): a string that is present may not be empty
EmptyString(obj, key, empty) == Has(obj, key) /\ obj[key] = empty

\* memo: Joi.object({ type: Joi.string()..., data: Joi.string()... }).optional()
memoSchema(body) ==
    IF Has(body, "memo")
    THEN Refused(<<"memo", "type">>, EmptyString(body.memo, "type", <<>>))
         \cup Refused(<<"memo", "data">>, EmptyString(body.memo, "data", <<>>))
    ELSE {}

\* escrowCreateSchema without .min(Joi.ref('finishAfter')) on cancelAfter
escrowCreateSchemaNoCancelRule(body, min) ==
    Refused(<<"sourceAddress">>, ~xrplAddress(body, "sourceAddress"))
    \cup Refused(<<"destinationAddress">>, ~xrplAddress(body, "destinationAddress"))
    \cup Refused(<<"amount">>, ~Has(body, "amount"))
    \cup Refused(<<"finishAfter">>, ~Has(body, "finishAfter") \/ body.finishAfter < min)
    \cup Refused(<<"condition">>, EmptyString(body, "condition", ""))
    \cup memoSchema(body)

escrowCreateSchema(body, min) ==
    Refused(<<"sourceAddress">>, ~xrplAddress(body, "sourceAddress"))
    \cup Refused(<<"destinationAddress">>, ~xrplAddress(body, "destinationAddress"))
    \cup Refused(<<"amount">>, ~Has(body, "amount"))
    \cup Refused(<<"finishAfter">>, ~Has(body, "finishAfter") \/ body.finishAfter < min)
    \cup Refused(<<"cancelAfter">>,
                 Has(body, "cancelAfter")
                 /\ (~Has(body, "finishAfter") \/ body.cancelAfter < body.finishAfter))
    \cup Refused(<<"condition">>, EmptyString(body, "condition", ""))
    \cup memoSchema(body)

escrowFinishSchema(body) ==
    Refused(<<"finisherAddress">>, ~xrplAddress(body, "finisherAddress"))
    \cup Refused(<<"ownerAddress">>, ~xrplAddress(body, "ownerAddress"))
    \cup Refused(<<"offerSequence">>, ~Has(body, "offerSequence") \/ body.offerSequence <= 0)
    \cup Refused(<<"fulfillment">>, EmptyString(body, "fulfillment", ""))

escrowCancelSchema(body) ==
    Refused(<<"cancellerAddress">>, ~xrplAddress(body, "cancellerAddress"))
    \cup Refused(<<"ownerAddress">>, ~xrplAddress(body, "ownerAddress"))
    \cup Refused(<<"offerSequence">>, ~Has(body, "offerSequence") \/ body.offerSequence <= 0)

HexStrings == {"1200022280000000"}

submitTxSchema(body) ==
    Refused(<<"signedTxBlob">>, ~Has(body, "signedTxBlob") \/ body.signedTxBlob \notin HexStrings)

\* multisigSubmitSchema without .min(1) on signatures
multisigSubmitSchemaNoMin(body) ==
    Refused(<<"transaction">>, ~Has(body, "transaction"))
    \cup Refused(<<"signatures">>, ~Has(body, "signatures"))
    \cup (IF Has(body, "signatures")
          THEN UNION { Refused(<<"signatures", ToString(i - 1), "signer">>,
                               ~xrplAddress(body.signatures[i], "signer")) :
                       i \in 1..Len(body.signatures) }
          ELSE {})

\* .items(...).min(1).required(): "signatures" is refused when it is too short,
\* signatures.<n>.signer when the item at index n (from 0) names no address
multisigSubmitSchema(body) ==
    Refused(<<"transaction">>, ~Has(body, "transaction"))
    \cup Refused(<<"signatures">>, ~Has(body, "signatures") \/ Len(body.signatures) < 1)
    \cup (IF Has(body, "signatures")
          THEN UNION { Refused(<<"signatures", ToString(i - 1), "signer">>,
                               ~xrplAddress(body.signatures[i], "signer")) :
                       i \in 1..Len(body.signatures) }
          ELSE {})

\* the schema each route hands to validateRequest; the two GET routes have none
SchemaErrors(kind, body, min) ==
    CASE kind = "create" -> escrowCreateSchema(body, min)
      [] kind = "finish" -> escrowFinishSchema(body)
      [] kind = "cancel" -> escrowCancelSchema(body)
      [] kind = "submit" -> submitTxSchema(body)
      [] kind = "multisig" -> multisigSubmitSchema(body)
      [] OTHER -> {}

(***************************************************************************)
(* Transaction Builder.                                                    *)
(***************************************************************************)
\* if (x): x is a number that is present and not 0
TruthyNum(obj, key) == Has(obj, key) /\ obj[key] # 0

\* if (x): x is a string that is present and not ''
TruthyStr(obj, key) == Has(obj, key) /\ obj[key] # ""

\* memo.type || 'escrow' and memo.data || ''
OrDefault(obj, key, default) ==
    IF Has(obj, key) /\ obj[key] # <<>> THEN obj[key] ELSE default

\* EscrowCreateTx that leaves the two instants in unix seconds
EscrowCreateTxUnixTimes(body) ==
    [TransactionType |-> "EscrowCreate", Account |-> body.sourceAddress,
     Destination |-> body.destinationAddress, Amount |-> body.amount]
    @@ (IF TruthyNum(body, "finishAfter") THEN [FinishAfter |-> body.finishAfter] ELSE Empty)
    @@ (IF TruthyNum(body, "cancelAfter") THEN [CancelAfter |-> body.cancelAfter] ELSE Empty)
    @@ (IF TruthyStr(body, "condition") THEN [Condition |-> body.condition] ELSE Empty)
    @@ (IF Has(body, "memo")
        THEN [Memos |-> << [Memo |-> [MemoType |-> toHex(OrDefault(body.memo, "type", EscrowLiteral)),
                                     MemoData |-> toHex(OrDefault(body.memo, "data", <<>>))]] >>]
        ELSE Empty)

EscrowCreateTx(body) ==
    [TransactionType |-> "EscrowCreate", Account |-> body.sourceAddress,
     Destination |-> body.destinationAddress, Amount |-> body.amount]
    @@ (IF TruthyNum(body, "finishAfter")
        THEN [FinishAfter |-> toRippleTime(body.finishAfter)] ELSE Empty)
    @@ (IF TruthyNum(body, "cancelAfter")
        THEN [CancelAfter |-> toRippleTime(body.cancelAfter)] ELSE Empty)
    @@ (IF TruthyStr(body, "condition") THEN [Condition |-> body.condition] ELSE Empty)
    @@ (IF Has(body, "memo")
        THEN [Memos |-> << [Memo |-> [MemoType |-> toHex(OrDefault(body.memo, "type", EscrowLiteral)),
                                     MemoData |-> toHex(OrDefault(body.memo, "data", <<>>))]] >>]
        ELSE Empty)

\* EscrowFinishTx that leaves the fulfillment out
EscrowFinishTxDropsFulfillment(body) ==
    [TransactionType |-> "EscrowFinish", Account |-> body.finisherAddress,
     Owner |-> body.ownerAddress, OfferSequence |-> body.offerSequence]

EscrowFinishTx(body) ==
    [TransactionType |-> "EscrowFinish", Account |-> body.finisherAddress,
     Owner |-> body.ownerAddress, OfferSequence |-> body.offerSequence]
    @@ (IF TruthyStr(body, "fulfillment") THEN [Fulfillment |-> body.fulfillment] ELSE Empty)

EscrowCancelTx(body) ==
    [TransactionType |-> "EscrowCancel", Account |-> body.cancellerAddress,
     Owner |-> body.ownerAddress, OfferSequence |-> body.offerSequence]

(***************************************************************************)
(* Multisig Assembler.                                                     *)
(***************************************************************************)
\* SignerEntries that lists the signers last to first
SignerEntriesReversed(signatures) ==
    [ i \in 1..Len(signatures) |->
        LET sig == signatures[Len(signatures) + 1 - i]
        IN  [Signer |-> [Account |-> sig.signer,
                         TxnSignature |-> sig.signature,
                         SigningPubKey |-> IF TruthyStr(sig, "publicKey")
                                           THEN sig.publicKey ELSE ""]] ]

\* signatures.map(sig => ({ Signer: { ... } }))
SignerEntries(signatures) ==
    [ i \in 1..Len(signatures) |->
        [Signer |-> [Account |-> signatures[i].signer,
                     TxnSignature |-> signatures[i].signature,
                     SigningPubKey |-> IF TruthyStr(signatures[i], "publicKey")
                                       THEN signatures[i].publicKey ELSE ""]] ]

\* MultisignedTx that leaves the transaction's LastLedgerSequence behind
MultisignedTxDropsExpiry(transaction, signatures) ==
    [Signers |-> SignerEntries(signatures), SigningPubKey |-> ""]
    @@ [f \in DOMAIN transaction \ {"LastLedgerSequence"} |-> transaction[f]]

\* { ...transaction, Signers: signers, SigningPubKey: '' }: the later keys win
MultisignedTx(transaction, signatures) ==
    [Signers |-> SignerEntries(signatures), SigningPubKey |-> ""] @@ transaction

\* xrpl.encode: the blob is the serialization of the object it was given
Encode(tx) == [encodingOf |-> tx]

(***************************************************************************)
(* The ledger, seen from the client: what each call can answer.            *)
(***************************************************************************)
TransportError == [message |-> "websocket was closed"]

\* a RippledError: the ledger's error response, its code in error.data.error
RippledError(code) == [message |-> code, data |-> [error |-> code]]

Returned(value) == [ok |-> TRUE, value |-> value]

Thrown(error) == [ok |-> FALSE, error |-> error]

SignerList ==
    [SignerQuorum |-> 2,
     SignerEntries |-> << [SignerEntry |-> [Account |-> Alice, SignerWeight |-> 1]],
                          [SignerEntry |-> [Account |-> Bob, SignerWeight |-> 1]] >>]

\* account_info's account_data: signer_lists absent, empty or holding one list
AccountData(account) ==
    { [Account |-> account] @@ sl : sl \in Opt("signer_lists", {<<>>, <<SignerList>>}) }

\* the fields autofill adds; it changes none it was given
Autofilled(tx) == tx @@ [Fee |-> "12", Sequence |-> 5, LastLedgerSequence |-> 100]

EscrowNodes ==
    { [Account |-> Alice, Destination |-> Bob, Amount |-> "1000000",
       FinishAfter |-> toRippleTime(StartTime), PreviousTxnID |-> "C4A46CCD"] @@ ca @@ co :
        ca \in Opt("CancelAfter", {toRippleTime(StartTime + 1)}),
        co \in Opt("Condition", {"A0258020E3B0C442"}) }

EngineResults == {"tesSUCCESS", "tecNO_PERMISSION", "tefPAST_SEQ"}

SubmitResponses ==
    { [engine_result |-> code, engine_result_message |-> "engine said " \o code,
       tx_json |-> [hash |-> "E3FE6EA3D48F0C2B"]] @@ va :
        code \in EngineResults, va \in Opt("validated", BOOLEAN) }

TxResponses == { [hash |-> "E3FE6EA3D48F0C2B", validated |-> v] : v \in BOOLEAN }

Answers(op, arg) ==
    CASE op = "account_info" -> {[account_data |-> ad] : ad \in AccountData(arg.account)}
      [] op = "autofill" -> {Autofilled(arg)}
      [] op = "ledger_entry" -> {[node |-> n] : n \in EscrowNodes}
      [] op = "tx" -> TxResponses
      [] op = "submit" -> SubmitResponses
      [] OTHER -> {Empty}

Failures(op) ==
    CASE op = "ledger_entry" ->
            {TransportError, RippledError("entryNotFound"), RippledError("malformedRequest")}
      [] op = "connect" -> {TransportError}
      [] OTHER -> {TransportError, RippledError("actNotFound")}

\* a call answers only over an open connection; it can fail at any time
Outcomes(call) ==
    {Thrown(e) : e \in Failures(call.op)}
    \cup (IF call.op = "connect" \/ clients[call.client] = "connected"
          THEN {Returned(v) : v \in Answers(call.op, call.arg)}
          ELSE {})

(***************************************************************************)
(* Requests.                                                               *)
(***************************************************************************)
IdleReq == [pc |-> "idle"]

NewReq(kind, body) ==
    [pc |-> "start", kind |-> kind, body |-> body,
     at |-> now,          \* the time the request is validated
     mine |-> 0,          \* the client this request constructed
     client |-> 0,        \* server.js: the handler's local client
     tx |-> Empty,        \* the descriptor the handler built
     acct |-> Empty,      \* finish: the account_data account_info returned
     calls |-> <<>>,      \* the ledger calls of this request, in order
     resp |-> Empty]      \* the HTTP response

Pending(r) == r.calls[Len(r.calls)]

Awaiting(r, ops) == r.pc = "call" /\ Pending(r).op \in ops

\* start a ledger call on client c and await it
Issue(r, op, arg, c) ==
    [r EXCEPT !.pc = "call",
              !.calls = Append(@, [op |-> op, client |-> c, arg |-> arg,
                                   st |-> "pending", out |-> Empty])]

\* the awaited call resolved or rejected; the log keeps what the ledger said
Settle(r, out) ==
    [r EXCEPT !.calls[Len(r.calls)].st = IF out.ok THEN "ok" ELSE "failed",
              !.calls[Len(r.calls)].out = out]

Respond(r, resp) == [r EXCEPT !.pc = "done", !.resp = resp]

ValidationFailed(fields) ==
    [status |-> 400, success |-> FALSE, error |-> "Validation failed", details |-> fields]

Ok(data) == [status |-> 200, success |-> TRUE, data |-> data]

Failed(message) == [status |-> 400, success |-> FALSE, error |-> message]

\* the service's prepare, status and lookup methods return { success: true, ... },
\* which the route puts in data
Data(fields) == IF impl = "service" THEN [success |-> TRUE] @@ fields ELSE fields

\* IsEntryNotFound that takes every error response of the ledger for "not found"
IsEntryNotFoundAnyLedgerError(e) == Has(e, "data")

\* error.data && error.data.error === 'entryNotFound'
IsEntryNotFound(e) == Has(e, "data") /\ e.data.error = "entryNotFound"

NotFoundData ==
    Data([status |-> "not_found",
          message |-> "Escrow not found. It may have been finished or cancelled."])

\* the catch block of the handler (and, in the service, of the route around it)
Catch(r, e) ==
    IF r.kind = "status" /\ IsEntryNotFound(e)
    THEN Respond(r, Ok(NotFoundData))
    ELSE Respond(r, Failed(e.message))

\* xrpl.config getXRPLClient: throw new Error(`XRPL connection failed: ${error.message}`)
Wrap(e) == [message |-> "XRPL connection failed: " \o e.message]

(***************************************************************************)
(* Results.                                                                *)
(***************************************************************************)
Null == [null |-> TRUE]

\* signerList && signerList.length > 0: undefined (no field v), false or true
IsMultisig(accountData) ==
    IF Has(accountData, "signer_lists")
    THEN [v |-> Len(accountData.signer_lists) > 0]
    ELSE Empty

IsTrue(jsValue) == Has(jsValue, "v") /\ jsValue.v

\* res.json drops a property whose value is undefined
JsonProp(key, jsValue) == IF Has(jsValue, "v") THEN (key :> jsValue.v) ELSE Empty

\* server.js, POST /api/escrow/finish: the data of the response
ServerFinishData(accountData, prepared) ==
    LET isMultisig == IsMultisig(accountData)
    IN  [transaction |-> prepared,
         instructions |->
            [message |-> IF IsTrue(isMultisig)
                         THEN "Multisig required. Collect signatures and submit via /api/escrow/submit-multisig"
                         ELSE "Sign and submit via /api/escrow/submit",
             signingRequired |-> TRUE]
            @@ JsonProp("multisigRequired", isMultisig)]
        @@ JsonProp("requiresMultisig", isMultisig)
        @@ (IF IsTrue(isMultisig) THEN [signerList |-> accountData.signer_lists[1]] ELSE Empty)

\* EscrowService.prepareEscrowFinish: what it returns
ServiceFinishData(accountData, prepared) ==
    IF IsTrue(IsMultisig(accountData))
    THEN [success |-> TRUE, transaction |-> prepared, requiresMultisig |-> TRUE,
          signerList |-> accountData.signer_lists[1],
          instructions |-> [message |-> "This account requires multisignature. Collect signatures from required signers and submit via /api/escrow/submit-multisig",
                            signingRequired |-> TRUE, multisigRequired |-> TRUE]]
    ELSE [success |-> TRUE, transaction |-> prepared, requiresMultisig |-> FALSE,
          instructions |-> [message |-> "Transaction prepared. Sign and submit via /api/escrow/submit",
                            signingRequired |-> TRUE]]

\* instructions.message of a prepared create or cancel
InstructionsMessage(kind) ==
    IF impl = "server"
    THEN IF kind = "create"
         THEN "Transaction prepared. Sign and submit via /api/escrow/submit"
         ELSE "Sign and submit via /api/escrow/submit"
    ELSE IF kind = "create"
         THEN "Transaction prepared. Sign this transaction with your private key and submit via /api/escrow/submit"
         ELSE "Transaction prepared. Sign and submit via /api/escrow/submit"

\* PreparedData that reports a multisig flag for create and cancel too
PreparedDataFlagsEveryKind(r, prepared) ==
    IF r.kind = "finish"
    THEN IF impl = "server" THEN ServerFinishData(r.acct, prepared)
                            ELSE ServiceFinishData(r.acct, prepared)
    ELSE Data([transaction |-> prepared, requiresMultisig |-> FALSE,
               instructions |-> [message |-> InstructionsMessage(r.kind),
                                 signingRequired |-> TRUE]])

PreparedData(r, prepared) ==
    IF r.kind = "finish"
    THEN IF impl = "server" THEN ServerFinishData(r.acct, prepared)
                            ELSE ServiceFinishData(r.acct, prepared)
    ELSE Data([transaction |-> prepared,
               instructions |-> [message |-> InstructionsMessage(r.kind),
                                 signingRequired |-> TRUE]])

\* SubmissionResult that takes every answer of the engine for an acceptance
SubmissionResultAlwaysAccepted(result) ==
    [success |-> TRUE,
     txHash |-> result.tx_json.hash,
     resultCode |-> result.engine_result,
     resultMessage |-> result.engine_result_message,
     validated |-> Has(result, "validated") /\ result.validated]

\* SubmissionResult that reports an accepted transaction as validated
SubmissionResultValidatedWhenAccepted(result) ==
    [success |-> result.engine_result = "tesSUCCESS",
     txHash |-> result.tx_json.hash,
     resultCode |-> result.engine_result,
     resultMessage |-> result.engine_result_message,
     validated |-> result.engine_result = "tesSUCCESS"]

\* Submission Gateway: the engine's answer as a SubmissionResult
SubmissionResult(result) ==
    [success |-> result.engine_result = "tesSUCCESS",
     txHash |-> result.tx_json.hash,
     resultCode |-> result.engine_result,
     resultMessage |-> result.engine_result_message,
     validated |-> Has(result, "validated") /\ result.validated]

MultisigResult(signatures, result) ==
    SubmissionResult(result)
    @@ [signerCount |-> Len(signatures),
        signers |-> [i \in 1..Len(signatures) |-> signatures[i].signer]]

\* Status Translator: a found entry
ActiveData(escrow) ==
    [status |-> "active",
     escrow |->
        [owner |-> escrow.Account, destination |-> escrow.Destination,
         amount |-> escrow.Amount, finishAfter |-> fromRippleTime(escrow.FinishAfter),
         cancelAfter |-> IF TruthyNum(escrow, "CancelAfter")
                         THEN fromRippleTime(escrow.CancelAfter) ELSE Null,
         condition |-> IF TruthyStr(escrow, "Condition") THEN escrow.Condition ELSE Null,
         previousTxnID |-> escrow.PreviousTxnID]
        @@ (IF impl = "service"
            THEN [sourceTag |-> IF TruthyNum(escrow, "SourceTag") THEN escrow.SourceTag ELSE Null,
                  destinationTag |-> IF TruthyNum(escrow, "DestinationTag")
                                     THEN escrow.DestinationTag ELSE Null]
            ELSE Empty)]

(***************************************************************************)
(* The handlers, from the point where they hold a client.                  *)
(***************************************************************************)
\* EscrowService: the xrpl.isValidAddress checks; "" when both addresses pass
InvalidAddress(kind, body) ==
    CASE kind = "create" ->
            IF ~isValidAddress(body.sourceAddress) THEN "Invalid source address"
            ELSE IF ~isValidAddress(body.destinationAddress) THEN "Invalid destination address"
            ELSE ""
      [] kind = "finish" ->
            IF ~isValidAddress(body.finisherAddress) THEN "Invalid finisher address"
            ELSE IF ~isValidAddress(body.ownerAddress) THEN "Invalid owner address"
            ELSE ""
      [] kind = "cancel" ->
            IF ~isValidAddress(body.cancellerAddress) THEN "Invalid canceller address"
            ELSE IF ~isValidAddress(body.ownerAddress) THEN "Invalid owner address"
            ELSE ""
      [] OTHER -> ""

\* the client a handler calls: server.js holds it in a local, the service reads
\* this.client at each call
UseClient(r) == IF impl = "server" THEN r.client ELSE svcClient

\* Forward that sends another blob than the one it was given
ForwardRewritten(r, c) == Issue(r, "submit", "1200022280000000DEADBEEF", c)

\* Submission Gateway: client.submit(signedTxBlob)
Forward(r, c) == Issue(r, "submit", r.body.signedTxBlob, c)

\* the handler builds its descriptor and starts its first ledger call on client c
Handler(r, c) ==
    LET k == r.kind
        b == r.body
        bad == IF impl = "service" THEN InvalidAddress(k, b) ELSE ""
    IN  IF bad # "" THEN Catch(r, [message |-> bad])
        ELSE CASE k = "create" ->
                    Issue([r EXCEPT !.tx = EscrowCreateTx(b)], "autofill", EscrowCreateTx(b), c)
               [] k = "finish" ->
                    Issue([r EXCEPT !.tx = EscrowFinishTx(b)], "account_info",
                          [command |-> "account_info", account |-> b.finisherAddress,
                           ledger_index |-> "validated"], c)
               [] k = "cancel" ->
                    Issue([r EXCEPT !.tx = EscrowCancelTx(b)], "autofill", EscrowCancelTx(b), c)
               [] k = "submit" -> Forward(r, c)
               [] k = "multisig" ->
                    LET tx == MultisignedTx(b.transaction, b.signatures)
                    IN  Issue([r EXCEPT !.tx = tx], "submit", Encode(tx), c)
               [] k = "status" ->
                    Issue(r, "ledger_entry",
                          [command |-> "ledger_entry",
                           escrow |-> [owner |-> b.ownerAddress, seq |-> b.offerSequence],
                           ledger_index |-> "validated"], c)
               [] k = "tx" ->
                    Issue(r, "tx", [command |-> "tx", transaction |-> b.txHash,
                                    binary |-> FALSE], c)

\* OnThrow that tries the failed call once more before giving up
OnThrowRetry(r, e, c) ==
    IF Len(r.calls) < 3 THEN Issue(r, Pending(r).op, Pending(r).arg, c) ELSE Catch(r, e)

\* what a handler does when an awaited call throws
OnThrow(r, e, c) == Catch(r, e)

\* the handler resumes after its awaited call (already settled in r) answered out
Continue(r, out, c) ==
    LET op == Pending(r).op
    IN  IF ~out.ok THEN OnThrow(r, out.error, c)
        ELSE CASE op = "account_info" ->
                    Issue([r EXCEPT !.acct = out.value.account_data], "autofill", r.tx, c)
               [] op = "autofill" -> Respond(r, Ok(PreparedData(r, out.value)))
               [] op = "submit" ->
                    Respond(r, Ok(IF r.kind = "multisig"
                                  THEN MultisigResult(r.body.signatures, out.value)
                                  ELSE SubmissionResult(out.value)))
               [] op = "ledger_entry" -> Respond(r, Ok(Data(ActiveData(out.value.node))))
               [] op = "tx" ->
                    Respond(r, Ok(Data([transaction |-> out.value,
                                        validated |-> out.value.validated])))

(***************************************************************************)
(* The shared connection handle.                                           *)
(***************************************************************************)
\* NeedsConnect without the isConnected() test
NeedsConnectOnlyWhenNull(handle) == handle = 0

\* !xrplClient || !xrplClient.isConnected()   (initialize: the same on this.client)
NeedsConnect(handle) == handle = 0 \/ clients[handle] # "connected"

Handle == IF impl = "server" THEN xrplClient ELSE svcClient

IsFresh(c) == clients[c] = "fresh"

\* new xrpl.Client(...): the next object not constructed yet
NewClient == CHOOSE c \in ClientIds : IsFresh(c) /\ \A d \in ClientIds : IsFresh(d) => c <= d

\* validateRequest that calls next() whatever the schema says
validateRequestPassesAll(kind, body) == {}

\* validateRequest(schema): the fields refused, none when next() is called
validateRequest(kind, body) == SchemaErrors(kind, body, schemaMin)

(***************************************************************************)
(* Actions.                                                                *)
(***************************************************************************)
\* A request arrives.  The middleware validates the body; if it passes, the
\* handler runs to its first await: getXRPLClient / initialize either starts a
\* connect on a new client, or finds the handle connected and the handler goes
\* on to build its descriptor and start its first ledger call.
Receive(i, kind, body) ==
    /\ reqs[i].pc = "idle"
    /\ LET r0 == NewReq(kind, body)
           errs == validateRequest(kind, body)
       IN  IF errs # {}
           THEN /\ reqs' = [reqs EXCEPT ![i] = Respond(r0, ValidationFailed(errs))]
                /\ UNCHANGED <<xrplClient, clients>>
           ELSE IF NeedsConnect(Handle)
           THEN /\ \E c \in ClientIds : IsFresh(c)
                /\ clients' = [clients EXCEPT ![NewClient] = "connecting"]
                /\ xrplClient' = IF impl = "server" THEN NewClient ELSE xrplClient
                /\ reqs' = [reqs EXCEPT ![i] =
                              Issue([r0 EXCEPT !.mine = NewClient],
                                    "connect", Empty, NewClient)]
           ELSE /\ reqs' = [reqs EXCEPT ![i] = Handler([r0 EXCEPT !.client = Handle], Handle)]
                /\ UNCHANGED <<xrplClient, clients>>
    /\ UNCHANGED <<codec, impl, now, schemaMin, svcClient>>

\* await client.connect() resolves or rejects.
\* server.js: getXRPLClient returns the handle as it is now, and the handler goes on.
\* xrpl.config: getXRPLClient goes on to request server_info.
ConnectDone(i) ==
    /\ Awaiting(reqs[i], {"connect"})
    /\ \E out \in Outcomes(Pending(reqs[i])) :
        LET r == Settle(reqs[i], out)
        IN  /\ clients' = [clients EXCEPT ![r.mine] =
                              IF out.ok THEN "connected" ELSE "disconnected"]
            /\ reqs' = [reqs EXCEPT ![i] =
                  IF impl = "server"
                  THEN IF out.ok THEN Handler([r EXCEPT !.client = xrplClient], xrplClient)
                       ELSE Catch(r, out.error)
                  ELSE IF out.ok
                       THEN Issue(r, "server_info", [command |-> "server_info"], r.mine)
                       ELSE Catch(r, Wrap(out.error))]
    /\ UNCHANGED <<codec, impl, now, schemaMin, xrplClient, svcClient>>

\* xrpl.config getXRPLClient: server_info answers and the client is returned;
\* initialize stores it in this.client and the method goes on.
ServerInfoDone(i) ==
    /\ Awaiting(reqs[i], {"server_info"})
    /\ \E out \in Outcomes(Pending(reqs[i])) :
        LET r == Settle(reqs[i], out)
        IN  IF out.ok
            THEN /\ svcClient' = r.mine
                 /\ reqs' = [reqs EXCEPT ![i] = Handler(r, r.mine)]
            ELSE /\ svcClient' = svcClient
                 /\ reqs' = [reqs EXCEPT ![i] = Catch(r, Wrap(out.error))]
    /\ UNCHANGED <<codec, impl, now, schemaMin, xrplClient, clients>>

\* an awaited request, autofill or submit answers and the handler resumes
LedgerReply(i) ==
    /\ Awaiting(reqs[i], {"account_info", "autofill", "ledger_entry", "tx", "submit"})
    /\ \E out \in Outcomes(Pending(reqs[i])) :
        reqs' = [reqs EXCEPT ![i] = Continue(Settle(reqs[i], out), out, UseClient(reqs[i]))]
    /\ UNCHANGED <<codec, impl, now, schemaMin, xrplClient, svcClient, clients>>

\* the response has been sent; the slot serves the next request
Free(i) ==
    /\ reqs[i].pc = "done"
    /\ reqs' = [reqs EXCEPT ![i] = IdleReq]
    /\ UNCHANGED <<codec, impl, now, schemaMin, xrplClient, svcClient, clients>>

\* the network closes an open connection
Drop(c) ==
    /\ clients[c] = "connected"
    /\ clients' = [clients EXCEPT ![c] = "disconnected"]
    /\ UNCHANGED <<codec, impl, now, schemaMin, xrplClient, svcClient, reqs>>

Tick ==
    /\ now < StartTime + MaxTick
    /\ now' = now + 1
    /\ UNCHANGED <<codec, impl, schemaMin, xrplClient, svcClient, clients, reqs>>

\* the process after it has loaded its modules: no client, no request
Loaded ==
    /\ impl \in {"server", "service"}
    /\ now = StartTime
    /\ schemaMin = StartTime
    /\ xrplClient = 0
    /\ svcClient = 0
    /\ clients = [c \in ClientIds |-> "fresh"]
    /\ reqs = [i \in Slots |-> IdleReq]

NoCodec == [of |-> "none"]

Init == Loaded /\ codec = NoCodec

\* one request at a time
ReceiveSeq ==
    /\ \A j \in Slots : reqs[j].pc = "idle"
    /\ \E kind \in Kinds : \E body \in BodiesOf(kind) : Receive(1, kind, body)

Progress ==
    \/ \E i \in Slots : ConnectDone(i)
    \/ \E i \in Slots : ServerInfoDone(i)
    \/ \E i \in Slots : LedgerReply(i)
    \/ \E i \in Slots : Free(i)
    \/ \E c \in ClientIds : Drop(c)

Next == ReceiveSeq \/ Progress \/ Tick

Spec == Init /\ [][Next]_vars

\* requests overlap; the bodies are well-formed
ConcRequests ==
    { <<"cancel", [cancellerAddress |-> Alice, ownerAddress |-> Bob, offerSequence |-> 7]>>,
      <<"tx", [txHash |-> "E3FE6EA3D48F0C2B"]>> }

ReceiveConc == \E i \in Slots : \E q \in ConcRequests : Receive(i, q[1], q[2])

NextConc == ReceiveConc \/ Progress

SpecConc == Init /\ [][NextConc]_vars

(***************************************************************************)
(* The codecs on their own: a value is drawn, a codec is applied to it and *)
(* the opposite conversion to the result.                                  *)
(***************************************************************************)
\* instants in unix seconds: around 0, the ledger's epoch and process start,
\* and the largest the model's integers hold
UnixTimes ==
    ((0 - MaxOffset)..MaxOffset)
    \cup ((RippleEpoch - MaxOffset)..(RippleEpoch + MaxOffset))
    \cup Times
    \cup {2147483647}

\* instants in seconds of the ledger's epoch
RippleTimes ==
    ((0 - MaxOffset)..MaxOffset)
    \cup {toRippleTime(t) : t \in Times}
    \cup {2147483647 - RippleEpoch}

\* code points at the ends of each UTF-8 length, and one half of a surrogate pair
CodePoints == {0, 65, 127, 128, 233, 2047, 2048, 8364, 55296, 65535, 65536, 128512, 1114111}

Strings == SeqsUpTo(CodePoints, MaxStr)

\* a string that UTF-8 can hold: no surrogate stands alone in it
IsUtf8String(str) == \A k \in 1..Len(str) : ~IsLoneSurrogate(str[k])

InitCodec ==
    /\ Loaded
    /\ \/ codec \in {[of |-> "unix", arg |-> t, steps |-> <<>>] : t \in UnixTimes}
       \/ codec \in {[of |-> "ripple", arg |-> r, steps |-> <<>>] : r \in RippleTimes}
       \/ codec \in {[of |-> "memo", arg |-> str, steps |-> <<>>] : str \in Strings}

\* the value the next conversion is applied to
Current == IF codec.steps = <<>> THEN codec.arg ELSE codec.steps[Len(codec.steps)]

Apply(result) ==
    /\ codec' = [codec EXCEPT !.steps = Append(@, result)]
    /\ UNCHANGED <<impl, now, schemaMin, xrplClient, svcClient, clients, reqs>>

ApplyToRippleTime ==
    /\ \/ codec.of = "unix" /\ Len(codec.steps) = 0
       \/ codec.of = "ripple" /\ Len(codec.steps) = 1
    /\ Apply(toRippleTime(Current))

ApplyFromRippleTime ==
    /\ \/ codec.of = "ripple" /\ Len(codec.steps) = 0
       \/ codec.of = "unix" /\ Len(codec.steps) = 1
    /\ Apply(fromRippleTime(Current))

ApplyToHex ==
    /\ codec.of = "memo" /\ Len(codec.steps) = 0
    /\ Apply(toHex(Current))

\* a reader of the memo decodes it
ApplyDecode ==
    /\ codec.of = "memo" /\ Len(codec.steps) = 1
    /\ Apply(Utf8Decode(HexDecode(Current)))

NextCodec == ApplyToRippleTime \/ ApplyFromRippleTime \/ ApplyToHex \/ ApplyDecode

SpecCodec == InitCodec /\ [][NextCodec]_vars

(***************************************************************************)
(* Properties.                                                             *)
(***************************************************************************)
\* the requests received and not yet forgotten
Active == {i \in Slots : reqs[i].pc # "idle"}

\* the body was refused by validateRequest: the response carries details
Refusal(r) == r.pc = "done" /\ Has(r.resp, "details")

AddressesOf(kind, body) ==
    CASE kind = "create" -> {body.sourceAddress, body.destinationAddress}
      [] kind = "finish" -> {body.finisherAddress, body.ownerAddress}
      [] kind = "cancel" -> {body.cancellerAddress, body.ownerAddress}
      [] OTHER -> {}

OpsOf(r) == {r.calls[k].op : k \in 1..Len(r.calls)}

\* C1: a create, finish or cancel request one of whose addresses is malformed
\* (refused by the pattern, or by the checksum) is rejected and makes no ledger
\* call at all: no connect, request, autofill or submit.
C1_MalformedAddressRejectedBeforeNetwork ==
    \A i \in Active :
        LET r == reqs[i]
        IN  (\E a \in AddressesOf(r.kind, r.body) : a \notin WellFormedAddrs)
            => /\ r.calls = <<>>
               /\ r.pc = "done" => ~r.resp.success

\* C2: a create request that passes validation has finishAfter present and not
\* earlier than the time at which it was validated.
C2_FinishAfterNotBeforeValidationTime ==
    \A i \in Active :
        LET r == reqs[i]
        IN  (r.kind = "create" /\ ~Refusal(r))
            => Has(r.body, "finishAfter") /\ r.body.finishAfter >= r.at

LastCall(r) == r.calls[Len(r.calls)]

\* C3: a submit-multisig request with no signature is rejected for its
\* signatures and reaches no ledger call; with N >= 1 signatures, whatever is
\* submitted is the encoding of a descriptor with exactly N signer entries and
\* SigningPubKey = ''.
C3_AssembleSignatureCount ==
    \A i \in Active :
        LET r == reqs[i]
            n == Len(r.body.signatures)
        IN  r.kind = "multisig"
            => /\ n = 0 => /\ r.pc = "done"
                           /\ ~r.resp.success
                           /\ Refusal(r) /\ "signatures" \in r.resp.details
                           /\ r.calls = <<>>
               /\ \A k \in 1..Len(r.calls) :
                     r.calls[k].op = "submit"
                     => /\ n >= 1
                        /\ Len(r.calls[k].arg.encodingOf.Signers) = n
                        /\ r.calls[k].arg.encodingOf.SigningPubKey = ""

\* a request with two signatures, for a transaction that came with a signing
\* key of its own, has been submitted
C3_Witness ==
    \E i \in Active :
        /\ reqs[i].kind = "multisig"
        /\ reqs[i].pc = "done"
        /\ Len(reqs[i].body.signatures) = 2
        /\ Has(reqs[i].body.transaction, "SigningPubKey")
        /\ reqs[i].calls # <<>>
        /\ LastCall(reqs[i]).op = "submit"
        /\ LastCall(reqs[i]).st = "ok"

\* C4: prepareFinish answers requiresMultisig = true with the signer list (and
\* its quorum) when the finisher's account holds a non-empty signer list, and an
\* explicit requiresMultisig = false with no signer list attached when the
\* account's signer list is empty or absent.
C4_MultisigFlagFollowsSignerList ==
    \A i \in Active :
        LET r == reqs[i]
            listed == Has(r.acct, "signer_lists") /\ Len(r.acct.signer_lists) > 0
        IN  (r.kind = "finish" /\ r.pc = "done" /\ r.resp.success)
            => IF listed
               THEN /\ Has(r.resp.data, "requiresMultisig")
                    /\ r.resp.data.requiresMultisig = TRUE
                    /\ Has(r.resp.data, "signerList")
                    /\ r.resp.data.signerList = r.acct.signer_lists[1]
                    /\ Has(r.resp.data.signerList, "SignerQuorum")
               ELSE /\ Has(r.resp.data, "requiresMultisig")
                    /\ r.resp.data.requiresMultisig = FALSE
                    /\ ~Has(r.resp.data, "signerList")

C6_StatusThreeOutcomes ==
    \A i \in Active :
        LET r == reqs[i]
            last == LastCall(r)
        IN  (r.kind = "status" /\ r.pc = "done")
            => /\ r.calls # <<>>
               /\ IF last.op = "ledger_entry" /\ last.st = "ok"
                  THEN r.resp.success /\ r.resp.data.status = "active"
                  ELSE IF /\ last.op = "ledger_entry"
                          /\ last.st = "failed"
                          /\ last.out.error = RippledError("entryNotFound")
                  THEN r.resp.success /\ r.resp.data.status = "not_found"
                  ELSE /\ last.st = "failed"
                       /\ ~r.resp.success
                       /\ r.resp.status = 400
                       /\ ~Has(r.resp, "data")

\* ledger_entry failed with another error of the ledger and the request failed
C6_Witness ==
    \E i \in Active :
        /\ reqs[i].kind = "status"
        /\ reqs[i].pc = "done"
        /\ reqs[i].calls # <<>>
        /\ LastCall(reqs[i]).op = "ledger_entry"
        /\ LastCall(reqs[i]).out = Thrown(RippledError("malformedRequest"))
        /\ ~reqs[i].resp.success

\* C7: a create request with cancelAfter and finishAfter both present and
\* cancelAfter < finishAfter is rejected: it gets no descriptor and no autofill
\* call is made for it.
C7_CancelBeforeFinishRejected ==
    \A i \in Active :
        LET r == reqs[i]
        IN  (/\ r.kind = "create"
             /\ Has(r.body, "cancelAfter") /\ Has(r.body, "finishAfter")
             /\ r.body.cancelAfter < r.body.finishAfter)
            => /\ r.pc = "done"
               /\ ~r.resp.success
               /\ ~Has(r.resp, "data")
               /\ "autofill" \notin OpsOf(r)
               /\ r.tx = Empty

\* a create request whose only fault is cancelAfter < finishAfter was refused
C7_Witness ==
    \E i \in Active :
        /\ reqs[i].kind = "create"
        /\ reqs[i].pc = "done"
        /\ Refusal(reqs[i])
        /\ reqs[i].resp.details = {"cancelAfter"}
        /\ Has(reqs[i].body, "finishAfter")
        /\ reqs[i].body.cancelAfter < reqs[i].body.finishAfter

Open == {c \in ClientIds : clients[c] = "connected"}

Connecting == {c \in ClientIds : clients[c] = "connecting"}

\* C8: requests that overlap share one connection: at most one connect is in
\* progress at a time, at most one connection is open, and an open connection
\* is the one the shared handle references (or is still being handed over by
\* the request that opened it).
C8_OneSharedConnection ==
    /\ Cardinality(Connecting) <= 1
    /\ Cardinality(Open) <= 1
    /\ Cardinality(Open \cup Connecting) <= 1
    /\ \A c \in Open :
          \/ c = Handle
          \/ \E i \in Active : reqs[i].mine = c /\ Awaiting(reqs[i], {"server_info"})

\* the requests that start in this step and pass validation
Starting == {i \in Slots : reqs[i].pc = "idle" /\ reqs'[i].pc # "idle" /\ ~Refusal(reqs'[i])}

\* C9: the connection is established lazily and reused.  A connect starts only
\* in the step in which an operation starts; that operation starts a connect,
\* as its first ledger call and on a new client, exactly when the shared handle
\* was absent or not connected; otherwise it makes its calls on the handle.
C9_LazyConnectAndReuse ==
    [][ LET started == {c \in ClientIds : clients[c] = "fresh" /\ clients'[c] # "fresh"}
            down == Handle = 0 \/ clients[Handle] # "connected"
        IN  /\ Starting = {} => started = {}
            /\ \A i \in Starting :
                  IF down
                  THEN /\ Cardinality(started) = 1
                       /\ Len(reqs'[i].calls) = 1
                       /\ reqs'[i].calls[1].op = "connect"
                       /\ reqs'[i].calls[1].client \in started
                  ELSE /\ started = {}
                       /\ \A k \in 1..Len(reqs'[i].calls) :
                             /\ reqs'[i].calls[k].op # "connect"
                             /\ reqs'[i].calls[k].client = Handle
      ]_vars

\* a later operation is making its call on the connection an earlier one opened
C9_Witness ==
    \E i \in Active :
        /\ reqs[i].pc = "call"
        /\ reqs[i].mine = 0
        /\ reqs[i].calls[1].op # "connect"
        /\ reqs[i].calls[1].client = Handle
        /\ clients[Handle] = "connected"

\* C10: no operation retries.  Within one request each ledger call is made at
\* most once; a call that failed is the last call of its request, which has
\* ended; and when the failure was a transport failure the request failed with
\* the error's message.
C10_NoRetry ==
    \A i \in Active :
        LET r == reqs[i]
        IN  /\ \A j, k \in 1..Len(r.calls) : j # k => r.calls[j].op # r.calls[k].op
            /\ \A k \in 1..Len(r.calls) :
                  r.calls[k].st = "failed"
                  => /\ k = Len(r.calls)
                     /\ r.pc = "done"
                     /\ r.calls[k].out.error = TransportError
                        => /\ ~r.resp.success
                           /\ r.resp.error \in
                                {TransportError.message,
                                 "XRPL connection failed: " \o TransportError.message}

\* the second ledger call of a request met a transport failure
C10_Witness ==
    \E i \in Active :
        /\ reqs[i].pc = "done"
        /\ Len(reqs[i].calls) >= 2
        /\ LastCall(reqs[i]).op \in {"autofill", "submit", "ledger_entry"}
        /\ LastCall(reqs[i]).out = Thrown(TransportError)

\* the ledger calls of request r for operation op, by their place in its log
CallsOf(r, op) == {k \in 1..Len(r.calls) : r.calls[k].op = op}

Succeeded(r) == r.pc = "done" /\ r.resp.success

\* C11: the descriptor a create request hands to autofill has kind EscrowCreate,
\* Account = the source, Destination = the destination, Amount = the request's
\* amount, FinishAfter = finishAfter - 946684800 exactly when finishAfter is
\* present, CancelAfter likewise, Condition exactly when a condition is
\* present, and Memos with a single entry exactly when a memo object was given
\* (its type decoding to the given type or 'escrow', its data to the given data
\* or the empty string), and no other field.
C11_CreateDescriptor ==
    \A i \in Active :
        LET r == reqs[i]
            b == r.body
        IN  r.kind = "create"
            => \A k \in CallsOf(r, "autofill") :
                  LET d == r.calls[k].arg
                  IN  /\ d.TransactionType = "EscrowCreate"
                      /\ d.Account = b.sourceAddress
                      /\ d.Destination = b.destinationAddress
                      /\ d.Amount = b.amount
                      /\ Has(d, "FinishAfter") <=> Has(b, "finishAfter")
                      /\ Has(b, "finishAfter") => d.FinishAfter = b.finishAfter - RippleEpoch
                      /\ Has(d, "CancelAfter") <=> Has(b, "cancelAfter")
                      /\ Has(b, "cancelAfter") => d.CancelAfter = b.cancelAfter - RippleEpoch
                      /\ Has(d, "Condition") <=> Has(b, "condition")
                      /\ Has(b, "condition") => d.Condition = b.condition
                      /\ Has(d, "Memos") <=> Has(b, "memo")
                      /\ Has(b, "memo")
                         => /\ Len(d.Memos) = 1
                            /\ DOMAIN d.Memos[1] = {"Memo"}
                            /\ DOMAIN d.Memos[1].Memo = {"MemoType", "MemoData"}
                            /\ Utf8Decode(HexDecode(d.Memos[1].Memo.MemoType))
                                  = IF Has(b.memo, "type") THEN b.memo.type ELSE EscrowLiteral
                            /\ Utf8Decode(HexDecode(d.Memos[1].Memo.MemoData))
                                  = IF Has(b.memo, "data") THEN b.memo.data ELSE <<>>
                      /\ DOMAIN d \subseteq {"TransactionType", "Account", "Destination", "Amount",
                                             "FinishAfter", "CancelAfter", "Condition", "Memos"}

\* a create request with a cancelAfter and an empty memo object, and no
\* condition, was prepared
C11_Witness ==
    \E i \in Active :
        /\ reqs[i].kind = "create"
        /\ Succeeded(reqs[i])
        /\ CallsOf(reqs[i], "autofill") # {}
        /\ Has(reqs[i].body, "cancelAfter")
        /\ ~Has(reqs[i].body, "condition")
        /\ Has(reqs[i].body, "memo") /\ reqs[i].body.memo = Empty

\* C12: whatever transaction object a submit-multisig request carries, the
\* transaction that is encoded and submitted has SigningPubKey = '' and is not
\* both singly signed and multisigned: next to its Signers it carries no
\* TxnSignature.
C12_SigningModesExclusive ==
    \A i \in Active :
        LET r == reqs[i]
        IN  r.kind = "multisig"
            => \A k \in CallsOf(r, "submit") :
                  LET t == r.calls[k].arg.encodingOf
                  IN  /\ Has(t, "SigningPubKey") /\ t.SigningPubKey = ""
                      /\ Has(t, "Signers")
                      /\ ~Has(t, "TxnSignature")

\* C13: the submitted transaction has one signer entry per signature packet, in
\* the order of the request: entry j has the Account, the TxnSignature and the
\* SigningPubKey ('' when the packet has no public key) of packet j; and the
\* result's signers and signerCount are the packets' signers, in that order,
\* and their number.
C13_SignerEntriesInCallerOrder ==
    \A i \in Active :
        LET r == reqs[i]
            p == r.body.signatures
        IN  r.kind = "multisig"
            => /\ \A k \in CallsOf(r, "submit") :
                     LET e == r.calls[k].arg.encodingOf.Signers
                     IN  /\ Len(e) = Len(p)
                         /\ \A j \in 1..Len(p) :
                               /\ e[j].Signer.Account = p[j].signer
                               /\ e[j].Signer.TxnSignature = p[j].signature
                               /\ e[j].Signer.SigningPubKey
                                     = IF Has(p[j], "publicKey") THEN p[j].publicKey ELSE ""
               /\ Succeeded(r)
                  => /\ r.resp.data.signerCount = Len(p)
                     /\ Len(r.resp.data.signers) = Len(p)
                     /\ \A j \in 1..Len(p) : r.resp.data.signers[j] = p[j].signer

\* two packets, the one without a public key first, were assembled and submitted
C13_Witness ==
    \E i \in Active :
        /\ reqs[i].kind = "multisig"
        /\ Succeeded(reqs[i])
        /\ Len(reqs[i].body.signatures) = 2
        /\ reqs[i].body.signatures[1].signer = Bob
        /\ reqs[i].body.signatures[2].signer = Alice

\* C14: a finish request asks account_info at most once, for the finisher's
\* address, and calls autofill only after account_info has answered; a create
\* or cancel request never asks account_info and its result carries no multisig
\* flag and no signer list.
C14_MultisigCheckOnlyForFinish ==
    \A i \in Active :
        LET r == reqs[i]
        IN  /\ r.kind = "finish"
               => /\ Cardinality(CallsOf(r, "account_info")) <= 1
                  /\ \A k \in CallsOf(r, "account_info") :
                        /\ r.calls[k].arg.command = "account_info"
                        /\ r.calls[k].arg.account = r.body.finisherAddress
                  /\ \A k \in CallsOf(r, "autofill") :
                        \E j \in CallsOf(r, "account_info") : j < k /\ r.calls[j].st = "ok"
            /\ r.kind \in {"create", "cancel"}
               => /\ CallsOf(r, "account_info") = {}
                  /\ Succeeded(r)
                     => /\ ~Has(r.resp.data, "requiresMultisig")
                        /\ ~Has(r.resp.data, "signerList")
                        /\ ~Has(r.resp.data.instructions, "multisigRequired")

\* a finish was prepared for an account that holds a signer list, and so was a
\* cancel, of which nothing was asked
C14_Witness ==
    \E i \in Active :
        /\ Succeeded(reqs[i])
        /\ \/ /\ reqs[i].kind = "finish"
              /\ Has(reqs[i].acct, "signer_lists") /\ reqs[i].acct.signer_lists # <<>>
           \/ /\ reqs[i].kind = "cancel"
              /\ CallsOf(reqs[i], "autofill") # {}

\* C15: a create, finish or cancel request never calls submit, and the
\* transaction it returns carries no signature (no TxnSignature, no
\* SigningPubKey, no Signers); a submit request hands the ledger the blob of
\* its body, as it came.
C15_NeverSignsNeverWrites ==
    \A i \in Active :
        LET r == reqs[i]
        IN  /\ r.kind \in {"create", "finish", "cancel"}
               => /\ CallsOf(r, "submit") = {}
                  /\ Succeeded(r)
                     => /\ ~Has(r.resp.data.transaction, "TxnSignature")
                        /\ ~Has(r.resp.data.transaction, "SigningPubKey")
                        /\ ~Has(r.resp.data.transaction, "Signers")
            /\ r.kind = "submit"
               => \A k \in CallsOf(r, "submit") : r.calls[k].arg = r.body.signedTxBlob

\* a blob has been handed to the ledger, which answered
C15_Witness ==
    \E i \in Active :
        /\ reqs[i].kind = "submit"
        /\ CallsOf(reqs[i], "submit") # {}
        /\ Succeeded(reqs[i])

\* C16: toRippleTime(t) = t - 946684800, fromRippleTime(toRippleTime(t)) = t
\* and toRippleTime(fromRippleTime(r)) = r.
C16_TimeCodecRoundTrip ==
    /\ (codec.of = "unix" /\ Len(codec.steps) >= 1)
       => codec.steps[1] = codec.arg - RippleEpoch
    /\ (codec.of = "unix" /\ Len(codec.steps) = 2) => codec.steps[2] = codec.arg
    /\ (codec.of = "ripple" /\ Len(codec.steps) = 2) => codec.steps[2] = codec.arg

\* the instant before the ledger's epoch went to the ledger's epoch and back
C16_Witness ==
    /\ codec.of = "unix"
    /\ codec.arg = RippleEpoch - 1
    /\ Len(codec.steps) = 2
    /\ codec.steps[1] < 0

\* C17: toHex of a UTF-8 string is uppercase hexadecimal text which a standard
\* hexadecimal decoder followed by a UTF-8 decoder turns back into the string;
\* toHex of the empty string is the empty string.
C17_MemoCodecHex ==
    (codec.of = "memo" /\ Len(codec.steps) >= 1)
    => LET str == codec.arg
           hex == codec.steps[1]
       IN  /\ \A k \in 1..Len(hex) : hex[k] \in (48..57) \cup (65..70)
           /\ str = <<>> => hex = <<>>
           /\ IsUtf8String(str)
              => /\ HexDecode(hex) # Malformed
                 /\ Len(codec.steps) = 2 => codec.steps[2] = str

\* a string of a two-byte and a four-byte character was encoded and decoded
C17_Witness ==
    /\ codec.of = "memo"
    /\ codec.arg = <<233, 128512>>
    /\ Len(codec.steps) = 2
    /\ Len(codec.steps[1]) = 12

\* C18: a request whose body the schema refuses is answered 400 with the
\* details of the refusal, one per refused field, and its handler does not run:
\* it constructs no client, builds no descriptor and makes no ledger call.
C18_RefusedByValidation ==
    \A i \in Active :
        LET r == reqs[i]
            errs == SchemaErrors(r.kind, r.body, schemaMin)
        IN  errs # {}
            => /\ r.pc = "done"
               /\ r.resp.status = 400
               /\ ~r.resp.success
               /\ Has(r.resp, "details") /\ r.resp.details = errs
               /\ r.calls = <<>>
               /\ r.mine = 0
               /\ r.tx = Empty

\* a body with two faults was refused before any client was constructed
C18_Witness ==
    \E i \in Active :
        /\ Refusal(reqs[i])
        /\ Cardinality(reqs[i].resp.details) = 2
        /\ \A c \in ClientIds : clients[c] = "fresh"

\* C19: the descriptor a finish request hands to autofill has kind EscrowFinish,
\* Account = the finisher, the Owner and OfferSequence of the request, and a
\* Fulfillment exactly when one was given; that of a cancel request has kind
\* EscrowCancel, Account = the canceller, the Owner and OfferSequence and
\* nothing else; each request calls autofill at most once, and once when it
\* succeeds.
C19_FinishAndCancelDescriptors ==
    \A i \in Active :
        LET r == reqs[i]
            b == r.body
        IN  r.kind \in {"finish", "cancel"}
            => /\ Cardinality(CallsOf(r, "autofill")) <= 1
               /\ Succeeded(r) => Cardinality(CallsOf(r, "autofill")) = 1
               /\ \A k \in CallsOf(r, "autofill") :
                     LET d == r.calls[k].arg
                     IN  /\ d.Owner = b.ownerAddress
                         /\ d.OfferSequence = b.offerSequence
                         /\ IF r.kind = "finish"
                            THEN /\ d.TransactionType = "EscrowFinish"
                                 /\ d.Account = b.finisherAddress
                                 /\ Has(d, "Fulfillment") <=> Has(b, "fulfillment")
                                 /\ Has(b, "fulfillment") => d.Fulfillment = b.fulfillment
                                 /\ DOMAIN d \subseteq {"TransactionType", "Account", "Owner",
                                                        "OfferSequence", "Fulfillment"}
                            ELSE /\ d.TransactionType = "EscrowCancel"
                                 /\ d.Account = b.cancellerAddress
                                 /\ DOMAIN d = {"TransactionType", "Account", "Owner",
                                                "OfferSequence"}

\* a finish with a fulfillment was prepared
C19_Witness ==
    \E i \in Active :
        /\ reqs[i].kind = "finish"
        /\ Succeeded(reqs[i])
        /\ Has(reqs[i].body, "fulfillment")
        /\ CallsOf(reqs[i], "autofill") # {}

\* C20: a submit or submit-multisig request calls submit at most once and asks
\* the ledger nothing after it; it succeeds as soon as that call has answered,
\* with validated = the validated flag of the answer, and false when the
\* answer has no such flag.
C20_ValidatedIsTheImmediateFlag ==
    \A i \in Active :
        LET r == reqs[i]
        IN  r.kind \in {"submit", "multisig"}
            => /\ Cardinality(CallsOf(r, "submit")) <= 1
               /\ OpsOf(r) \subseteq {"connect", "server_info", "submit"}
               /\ \A k \in CallsOf(r, "submit") :
                     /\ k = Len(r.calls)
                     /\ r.calls[k].st = "ok" => Succeeded(r)
               /\ Succeeded(r)
                  => /\ Cardinality(CallsOf(r, "submit")) = 1
                     /\ LET answer == LastCall(r).out.value
                        IN  IF Has(answer, "validated")
                            THEN r.resp.data.validated = answer.validated
                            ELSE r.resp.data.validated = FALSE

\* an accepted multisigned transaction whose answer had no validated flag
C20_Witness ==
    \E i \in Active :
        /\ reqs[i].kind = "multisig"
        /\ Succeeded(reqs[i])
        /\ ~Has(LastCall(reqs[i]).out.value, "validated")
        /\ LastCall(reqs[i]).out.value.engine_result = "tesSUCCESS"
        /\ reqs[i].resp.data.validated = FALSE

\* C21: in server.js, a client that getXRPLClient returns to a handler is
\* connected in the state in which it is returned, whatever other requests are
\* doing.  (A handler holds the returned client in its local: client = 0 before
\* getXRPLClient has returned.)
C21_ReturnedClientIsConnected ==
    [][ impl = "server"
        => \A i \in Slots :
              LET before == IF reqs[i].pc = "idle" THEN 0 ELSE reqs[i].client
                  after == IF reqs'[i].pc = "idle" THEN 0 ELSE reqs'[i].client
              IN  (before = 0 /\ after # 0) => clients'[after] = "connected"
      ]_vars

\* C22: the transaction a submit-multisig request encodes has the fields of the
\* request's transaction and Signers and SigningPubKey; every field of the
\* request's transaction other than these two has its value in the encoded
\* transaction; and the request's transaction object is, in every step, what
\* it was.
C22_AssemblyFrame ==
    [][ \A i \in Slots :
            (reqs'[i].pc # "idle" /\ reqs'[i].kind = "multisig")
            => /\ reqs[i].pc # "idle" => reqs'[i].body = reqs[i].body
               /\ \A k \in CallsOf(reqs'[i], "submit") :
                     LET t == reqs'[i].body.transaction
                         e == reqs'[i].calls[k].arg.encodingOf
                     IN  /\ DOMAIN e = DOMAIN t \cup {"Signers", "SigningPubKey"}
                         /\ \A f \in DOMAIN t \ {"Signers", "SigningPubKey"} : e[f] = t[f]
      ]_vars

\* a transaction that came with a signer list of its own was assembled and
\* submitted
C22_Witness ==
    \E i \in Active :
        /\ reqs[i].kind = "multisig"
        /\ Has(reqs[i].body.transaction, "Signers")
        /\ reqs[i].calls # <<>>
        /\ LastCall(reqs[i]).op = "submit"
        /\ LastCall(reqs[i]).st = "ok"

\* server.js: the ledger calls a route handler makes once it holds a client,
\* in order, each made when the one before it has answered
HandlerCalls(kind, body) ==
    CASE kind = "create" -> << [op |-> "autofill", arg |-> EscrowCreateTx(body)] >>
      [] kind = "finish" ->
            << [op |-> "account_info",
                arg |-> [command |-> "account_info", account |-> body.finisherAddress,
                         ledger_index |-> "validated"]],
               [op |-> "autofill", arg |-> EscrowFinishTx(body)] >>
      [] kind = "cancel" -> << [op |-> "autofill", arg |-> EscrowCancelTx(body)] >>
      [] kind = "submit" -> << [op |-> "submit", arg |-> body.signedTxBlob] >>
      [] kind = "multisig" ->
            << [op |-> "submit",
                arg |-> Encode(MultisignedTx(body.transaction, body.signatures))] >>
      [] kind = "status" ->
            << [op |-> "ledger_entry",
                arg |-> [command |-> "ledger_entry",
                         escrow |-> [owner |-> body.ownerAddress, seq |-> body.offerSequence],
                         ledger_index |-> "validated"]] >>
      [] kind = "tx" ->
            << [op |-> "tx", arg |-> [command |-> "tx", transaction |-> body.txHash,
                                      binary |-> FALSE]] >>

\* how a request ended: success, not_found or failure
Outcome(r) ==
    IF ~r.resp.success THEN "failure"
    ELSE IF r.kind = "status" /\ r.resp.data.status = "not_found" THEN "not_found"
    ELSE "success"

\* the ledger calls of a request, the opening of a connection aside
LedgerCalls(r) == SelectSeq(r.calls, LAMBDA call : call.op # "connect")

\* C23: the two implementations agree.  For a request that passes validation,
\* with well-formed addresses, either implementation makes, after connecting if
\* it has to, the same ledger calls with the same arguments in the same order,
\* each when the one before it has answered; and it ends in success when the
\* last of them has answered, in not_found when ledger_entry has answered
\* entryNotFound, and in failure when connect or another of the calls failed.
C23_ImplementationsAgree ==
    \A i \in Active :
        LET r == reqs[i]
            made == LedgerCalls(r)
            due == HandlerCalls(r.kind, r.body)
        IN  (/\ SchemaErrors(r.kind, r.body, schemaMin) = {}
             /\ AddressesOf(r.kind, r.body) \subseteq WellFormedAddrs)
            => /\ Len(made) <= Len(due)
               /\ \A k \in 1..Len(made) :
                     k <= Len(due) /\ made[k].op = due[k].op /\ made[k].arg = due[k].arg
               /\ r.pc = "done"
                  => Outcome(r) =
                        IF LastCall(r).st = "ok" /\ Len(made) = Len(due) THEN "success"
                        ELSE IF /\ LastCall(r).op = "ledger_entry"
                                /\ LastCall(r).st = "failed"
                                /\ LastCall(r).out.error = RippledError("entryNotFound")
                        THEN "not_found"
                        ELSE "failure"

====
